---- MODULE Spec2Model ----
(***************************************************************************)
(* A model of the nutrition estimation and scoring engine of pynut.py:     *)
(* calculate_bmr, calculate_tee, compute_target_macros_per_meal,           *)
(* score_menu, estimate_speed_bmi_age, calories_to_exercise_with_distance. *)
(*                                                                         *)
(* Numbers are exact rationals <<n, d>> with d > 0 in lowest terms, so the *)
(* decimal literals of the source (0.4, 13.397, ...) are represented       *)
(* exactly.  Where binary floating point decides an outcome that exact     *)
(* arithmetic leaves on a tie (round(x, 2) of a value ending in ...5), the *)
(* model allows both neighbours.                                           *)
(***************************************************************************)
EXTENDS Integers, Sequences, FiniteSets, TLC

VARIABLES df, dfIn, op, args, ret, pc

vars == <<df, dfIn, op, args, ret, pc>>

(***************************************************************************)
(* Bounds of the model.                                                    *)
(***************************************************************************)
MaxRows == 3
MaxTarget == 3
MaxAge == 20
MaxCalories == 24

(***************************************************************************)
(* Exact rational arithmetic.                                              *)
(***************************************************************************)
Abs(x) == IF x < 0 THEN -x ELSE x

RECURSIVE GCD(_, _)
GCD(a, b) == IF b = 0 THEN a ELSE GCD(b, a % b)

Norm(n, d) ==
    LET s == IF d < 0 THEN -1 ELSE 1
        g == GCD(Abs(n), Abs(d))
    IN  <<(s * n) \div g, (s * d) \div g>>

R(n) == <<n, 1>>
Dec(n, scale) == Norm(n, scale)

RAdd(a, b) == Norm(a[1] * b[2] + b[1] * a[2], a[2] * b[2])
RSub(a, b) == Norm(a[1] * b[2] - b[1] * a[2], a[2] * b[2])
RMul(a, b) == Norm(a[1] * b[1], a[2] * b[2])
RDiv(a, b) == Norm(a[1] * b[2], a[2] * b[1])
RLt(a, b) == a[1] * b[2] < b[1] * a[2]
RLe(a, b) == a[1] * b[2] <= b[1] * a[2]
RGt(a, b) == RLt(b, a)
RGe(a, b) == RLe(b, a)

\* Python's built-in min(a, b) and max(a, b): the first argument wins a tie.
PyMin(a, b) == IF RLt(b, a) THEN b ELSE a
PyMax(a, b) == IF RGt(b, a) THEN b ELSE a

Floor(a) == a[1] \div a[2]

\* Python's round(x) with one argument: to the nearest integer, a half going
\* to the even neighbour.  A quotient of two small integers that is a half
\* is exact in binary, so the tie rule is what decides.
PyRound(a) ==
    LET f == Floor(a)
        twiceRem == 2 * (a[1] - f * a[2])
    IN  IF twiceRem < a[2] THEN f
        ELSE IF twiceRem > a[2] THEN f + 1
        ELSE IF f % 2 = 0 THEN f ELSE f + 1

\* Python's round(x, 2) of a float: the results it can give for the real
\* number a.  Away from a tie it is the nearest multiple of 0.01; on a tie
\* the binary value of x lies on either side of it (round(2.675, 2) = 2.67).
PyRound2(a) ==
    LET h == RMul(a, R(100))
        f == Floor(h)
        twiceRem == 2 * (h[1] - f * h[2])
    IN  IF twiceRem < h[2] THEN {Dec(f, 100)}
        ELSE IF twiceRem > h[2] THEN {Dec(f + 1, 100)}
        ELSE {Dec(f, 100), Dec(f + 1, 100)}

(***************************************************************************)
(* Outcomes of a call: a returned value or a raised exception.             *)
(***************************************************************************)
Ok(v) == [kind |-> "ok", val |-> v]
Raise(e) == [kind |-> e, val |-> <<>>]

(***************************************************************************)
(* calculate_bmr                                                           *)
(***************************************************************************)
\* gender.lower(): the genders of the model in both spellings.
Lower(s) == IF s = "Male" THEN "male" ELSE IF s = "Female" THEN "female" ELSE s

Lin(c0, ca, age, ch, height, cw, weight) ==
    RAdd(RAdd(RAdd(c0, RMul(ca, R(age))), RMul(ch, R(height))), RMul(cw, R(weight)))

calculate_bmr(gender, age, height, weight) ==
    IF Lower(gender) = "male"
    THEN Lin(Dec(88362, 1000), Dec(-5677, 1000), age,
             Dec(4799, 1000), height, Dec(13397, 1000), weight)
    ELSE Lin(R(-161), R(-5), age, Dec(625, 100), height, R(10), weight)

(***************************************************************************)
(* calculate_tee                                                           *)
(***************************************************************************)
T(c0, ca, age, ch, height, cw, weight) ==
    Lin(Dec(c0, 100), Dec(ca, 100), age, Dec(ch, 100), height, Dec(cw, 100), weight)

\* The age bands of the decision table: the tests of the if / elif chain.
is_infant_lt_2(age) == age < 2

is_infant(age) == age <= 2

is_child(age) == age < 19

calculate_tee(gender, age, height, weight, activity_level) ==
    IF gender = "male"
    THEN IF is_infant(age)
         THEN T(-71645, -100, age, 1782, height, 1506, weight)
         ELSE IF is_child(age)
         THEN IF activity_level = "inactive"
              THEN T(-44751, -368, age, 1301, height, 1315, weight)
              ELSE IF activity_level = "low active"
              THEN T(1912, 368, age, 862, height, 2028, weight)
              ELSE IF activity_level = "active"
              THEN T(-38819, 368, age, 1266, height, 2046, weight)
              ELSE T(-67175, 368, age, 1538, height, 2325, weight)
         ELSE IF activity_level = "inactive"
              THEN T(75307, -1083, age, 650, height, 1410, weight)
              ELSE IF activity_level = "low active"
              THEN T(58147, -1083, age, 830, height, 1494, weight)
              ELSE IF activity_level = "active"
              THEN T(100482, -1083, age, 652, height, 1591, weight)
              ELSE T(-51788, -1083, age, 1561, height, 1911, weight)
    ELSE IF is_infant(age)
         THEN T(-6915, 8000, age, 265, height, 5415, weight)
         ELSE IF is_child(age)
         THEN IF activity_level = "inactive"
              THEN T(5559, -2225, age, 843, height, 1707, weight)
              ELSE IF activity_level = "low active"
              THEN T(-29754, -2225, age, 1277, height, 1473, weight)
              ELSE IF activity_level = "active"
              THEN T(-18955, -2225, age, 1174, height, 1834, weight)
              ELSE T(-70959, -2225, age, 1822, height, 1425, weight)
         ELSE IF activity_level = "inactive"
              THEN T(58490, -701, age, 572, height, 1171, weight)
              ELSE IF activity_level = "low active"
              THEN T(57577, -701, age, 660, height, 1214, weight)
              ELSE IF activity_level = "active"
              THEN T(71025, -701, age, 654, height, 1234, weight)
              ELSE T(51183, -701, age, 907, height, 1256, weight)

(***************************************************************************)
(* compute_target_macros_per_meal                                          *)
(***************************************************************************)
compute_target_macros_fat_4(tee) ==
    ("Protein (g)" :> RDiv(RDiv(RMul(tee, Dec(4, 10)), R(4)), R(3))) @@
    ("Fat (g)"     :> RDiv(RDiv(RMul(tee, Dec(3, 10)), R(4)), R(3))) @@
    ("Carbs (g)"   :> RDiv(RDiv(RMul(tee, Dec(3, 10)), R(4)), R(3)))

compute_target_macros_per_meal(tee) ==
    ("Protein (g)" :> RDiv(RDiv(RMul(tee, Dec(4, 10)), R(4)), R(3))) @@
    ("Fat (g)"     :> RDiv(RDiv(RMul(tee, Dec(3, 10)), R(9)), R(3))) @@
    ("Carbs (g)"   :> RDiv(RDiv(RMul(tee, Dec(3, 10)), R(4)), R(3)))

(***************************************************************************)
(* The nutrient table: a pandas DataFrame, as its column labels in order   *)
(* and its rows in order, each row carrying its index label and its cells. *)
(***************************************************************************)
NutrientColumns ==
    <<"Food", "FDC ID", "Brand", "Calories", "Protein (g)", "Fat (g)",
      "Carbs (g)", "Sugar (g)", "Fiber (g)", "Sodium (mg)">>

ScoreColumns ==
    <<"Calories Score", "Protein Score", "Fat Score", "Carbs Score", "Total Score">>

Range(s) == {s[i] : i \in DOMAIN s}

Food(name, id, brand, cal, protein, fat, carbs) ==
    ("Food" :> name) @@ ("FDC ID" :> id) @@ ("Brand" :> brand) @@
    ("Calories" :> R(cal)) @@ ("Protein (g)" :> R(protein)) @@
    ("Fat (g)" :> R(fat)) @@ ("Carbs (g)" :> R(carbs)) @@
    ("Sugar (g)" :> R(0)) @@ ("Fiber (g)" :> R(0)) @@ ("Sodium (mg)" :> R(0))

\* The food records the tables of the model are made of.  Two of them are
\* the same product under two brands: equal nutrients, different identity.
FoodPool ==
    { Food("oat bar", 101, "a", 1, 1, 2, 1),
      Food("oat bar", 102, "b", 1, 1, 2, 1),
      Food("chicken", 103, "a", 4, 3, 0, 6),
      Food("pizza",   105, "d", 7, 2, 5, 3) }

Injective(s) == \A i, j \in DOMAIN s : s[i] = s[j] => i = j

\* Tables of at most MaxRows distinct foods, indexed 0, 1, 2, ... in row order.
Tables ==
    { [columns |-> NutrientColumns,
       rows |-> [i \in DOMAIN s |-> [label |-> i - 1, cells |-> s[i]]]] :
      s \in { t \in UNION { [1..n -> FoodPool] : n \in 0..MaxRows } : Injective(t) } }

EmptyTable == [columns |-> NutrientColumns, rows |-> <<>>]

\* df[col] = series: the column is appended when it is new and overwritten
\* in place when it exists; series holds one value per row, in row order.
SetColumn(d, col, series) ==
    [columns |-> IF col \in Range(d.columns) THEN d.columns ELSE Append(d.columns, col),
     rows |-> [i \in DOMAIN d.rows |->
                 [label |-> d.rows[i].label,
                  cells |-> [c \in (DOMAIN d.rows[i].cells) \cup {col} |->
                               IF c = col THEN series[i] ELSE d.rows[i].cells[c]]]]]

\* df[col] as the sequence of its values.
Column(d, col) == [i \in DOMAIN d.rows |-> d.rows[i].cells[col]]

(***************************************************************************)
(* score_menu                                                              *)
(***************************************************************************)
bounded_score_uncapped(x, t) == RDiv(x, t)

bounded_score(x, t) == PyMin(RDiv(x, t), R(1))

penalized_score_unclamped(x, t) ==
    IF RGt(x, t) THEN RSub(R(2), RDiv(x, t)) ELSE RDiv(x, t)

penalized_score(x, t) ==
    IF RGt(x, t) THEN PyMax(R(0), RSub(R(2), RDiv(x, t))) ELSE RDiv(x, t)

\* x / t raises ZeroDivisionError for t = 0; Series.apply calls the function
\* once per row, so a table without rows divides nothing.
DivFails(d, t) == Len(d.rows) > 0 /\ t[1] = 0

weights ==
    [muscle_gain |-> <<Dec(2, 10), Dec(4, 10), Dec(2, 10), Dec(2, 10)>>,
     fat_loss    |-> <<Dec(3, 10), Dec(4, 10), Dec(3, 10), Dec(2, 10)>>]

total_score(cells, w) ==
    RAdd(RAdd(RAdd(RMul(cells["Calories Score"], w[1]),
                   RMul(cells["Protein Score"], w[2])),
              RMul(cells["Fat Score"], w[3])),
         RMul(cells["Carbs Score"], w[4]))

RowOrders(n) == { p \in [1..n -> 1..n] : Injective(p) }

\* The orders a sort of the rows by column `by` can return.  pandas sorts
\* with kind = "quicksort" unless told otherwise, which is not a stable
\* sort: rows with equal keys come out in an order the call does not fix.
SortedOrders(d, by, ascending) ==
    { p \in RowOrders(Len(d.rows)) :
        \A i \in 1..(Len(d.rows) - 1) :
            IF ascending
            THEN RLe(d.rows[p[i]].cells[by], d.rows[p[i + 1]].cells[by])
            ELSE RGe(d.rows[p[i]].cells[by], d.rows[p[i + 1]].cells[by]) }

Reorder(d, p) == [columns |-> d.columns, rows |-> [i \in DOMAIN d.rows |-> d.rows[p[i]]]]

sort_values_ascending(d, by, ascending) ==
    { Reorder(d, p) : p \in SortedOrders(d, by, TRUE) }

\* DataFrame.sort_values(by, ascending): a new frame, the receiver untouched.
sort_values(d, by, ascending) ==
    { Reorder(d, p) : p \in SortedOrders(d, by, ascending) }

\* The body of score_menu on the frame d it works on: the set of
\* <<frame left behind, outcome>> pairs the call can end in.
score_menu_body(d, targets, tee, goal) ==
    LET d1 == SetColumn(d, "Calories Score",
                  [i \in DOMAIN d.rows |-> penalized_score(Column(d, "Calories")[i], tee)])
        d2 == SetColumn(d1, "Protein Score",
                  [i \in DOMAIN d.rows |->
                     bounded_score(Column(d1, "Protein (g)")[i], targets["Protein (g)"])])
        d3 == SetColumn(d2, "Fat Score",
                  [i \in DOMAIN d.rows |->
                     penalized_score(Column(d2, "Fat (g)")[i], targets["Fat (g)"])])
        d4 == SetColumn(d3, "Carbs Score",
                  [i \in DOMAIN d.rows |->
                     penalized_score(Column(d3, "Carbs (g)")[i], targets["Carbs (g)"])])
        d5 == SetColumn(d4, "Total Score",
                  [i \in DOMAIN d.rows |-> total_score(d4.rows[i].cells, weights[goal])])
    IN  IF DivFails(d, tee) THEN {<<d, Raise("ZeroDivisionError")>>}
        ELSE IF DivFails(d1, targets["Protein (g)"]) THEN {<<d1, Raise("ZeroDivisionError")>>}
        ELSE IF DivFails(d2, targets["Fat (g)"]) THEN {<<d2, Raise("ZeroDivisionError")>>}
        ELSE IF DivFails(d3, targets["Carbs (g)"]) THEN {<<d3, Raise("ZeroDivisionError")>>}
        ELSE IF goal \notin DOMAIN weights THEN {<<d4, Raise("KeyError")>>}
        ELSE { <<d5, Ok(s)>> : s \in sort_values(d5, "Total Score", FALSE) }

score_menu_on_copy(d, targets, tee, goal) ==
    { <<d, x[2]>> : x \in score_menu_body(d, targets, tee, goal) }

\* score_menu(df, ...): df is the caller's frame itself, not a copy of it.
score_menu(d, targets, tee, goal) == score_menu_body(d, targets, tee, goal)

(***************************************************************************)
(* estimate_speed_bmi_age                                                  *)
(***************************************************************************)
base_speeds == [Running |-> R(9), Swimming |-> R(3), Cycling |-> R(15), Walking |-> R(5)]

\* The speeds round(speed, 2) can return.
estimate_speed_bmi_age(activity, bmi, age) ==
    LET speed0 == IF activity \in DOMAIN base_speeds THEN base_speeds[activity] ELSE R(5)
        speed1 == IF bmi > 25 THEN RMul(speed0, Dec(9, 10)) ELSE speed0
        speed2 == IF age > 40 THEN RMul(speed1, Dec(95, 100)) ELSE speed1
    IN  PyRound2(speed2)

(***************************************************************************)
(* calories_to_exercise_with_distance                                      *)
(***************************************************************************)
activities == [Running |-> 10, Swimming |-> 14, Cycling |-> 8, Walking |-> 4]

\* One pass of the loop body: the entries result[activity] can get.
exercise_entry_body(minutes, timeSource, activity, bmi, age) ==
    { [time_min |-> PyRound(minutes), distance_km |-> distance, speed_kmh |-> speed] :
        <<speed, distance>> \in
            UNION { { <<sp, di>> : di \in PyRound2(RMul(RDiv(timeSource, R(60)), sp)) } :
                    sp \in estimate_speed_bmi_age(activity, bmi, age) } }

exercise_entry_rounded_minutes(calories, activity, bmi, age) ==
    LET minutes == RDiv(R(calories), R(activities[activity]))
    IN  exercise_entry_body(minutes, R(PyRound(minutes)), activity, bmi, age)

exercise_entry(calories, activity, bmi, age) ==
    LET minutes == RDiv(R(calories), R(activities[activity]))
    IN  exercise_entry_body(minutes, minutes, activity, bmi, age)

calories_to_exercise_with_distance(calories, bmi, age) ==
    { [Running |-> r, Swimming |-> s, Cycling |-> c, Walking |-> w] :
        r \in exercise_entry(calories, "Running", bmi, age),
        s \in exercise_entry(calories, "Swimming", bmi, age),
        c \in exercise_entry(calories, "Cycling", bmi, age),
        w \in exercise_entry(calories, "Walking", bmi, age) }

(***************************************************************************)
(* The inputs of the model.                                                *)
(***************************************************************************)
Genders == {"male", "female", "Male"}
Ages == 0..MaxAge
Heights == {50, 170}
Weights == {4, 70}
ActivityLevels == {"inactive", "low active", "active", "very active", "low_active"}
Goals == {"muscle_gain", "fat_loss", "unknown_goal"}
TargetValues == 0..MaxTarget
Activities == {"Running", "Swimming", "Cycling", "Walking", "Rowing"}
Bmis == {22, 25, 28}
ExerciseAges == {25, 40, 45}
CalorieValues == (0..MaxCalories) \cup {600}
TeeValues == {0, 2100, 2400} \cup TargetValues

(***************************************************************************)
(* The state machine.  A behaviour is one call: Init is the caller holding *)
(* the arguments (and, for score_menu, its table df), and the action of    *)
(* the operation called is the whole call, leaving its outcome in ret.     *)
(***************************************************************************)
BmrCalls ==
    { [gender |-> gender, age |-> age, height |-> height, weight |-> weight] :
        gender \in Genders, age \in Ages, height \in Heights, weight \in Weights }

TeeCalls ==
    { [gender |-> gender, age |-> age, height |-> height, weight |-> weight,
       activity_level |-> activity_level] :
        gender \in Genders, age \in Ages, height \in Heights, weight \in Weights,
        activity_level \in ActivityLevels }

MacroCalls == { [tee |-> R(tee)] : tee \in TeeValues }

ScoreCalls ==
    { [targets |-> ("Protein (g)" :> R(p)) @@ ("Fat (g)" :> R(f)) @@ ("Carbs (g)" :> R(c)),
       tee |-> R(tee), goal |-> goal] :
        p \in TargetValues, f \in TargetValues, c \in TargetValues,
        tee \in TargetValues, goal \in Goals }

SpeedCalls ==
    { [activity |-> activity, bmi |-> bmi, age |-> age] :
        activity \in Activities, bmi \in Bmis, age \in ExerciseAges }

ExerciseCalls ==
    { [calories |-> calories, bmi |-> bmi, age |-> age] :
        calories \in CalorieValues, bmi \in Bmis, age \in ExerciseAges }

Init ==
    /\ pc = "call"
    /\ ret = Ok(<<>>)
    /\ \/ op = "calculate_bmr" /\ args \in BmrCalls /\ df = EmptyTable
       \/ op = "calculate_tee" /\ args \in TeeCalls /\ df = EmptyTable
       \/ op = "compute_target_macros_per_meal" /\ args \in MacroCalls /\ df = EmptyTable
       \/ op = "score_menu" /\ args \in ScoreCalls /\ df \in Tables
       \/ op = "estimate_speed_bmi_age" /\ args \in SpeedCalls /\ df = EmptyTable
       \/ op = "calories_to_exercise_with_distance" /\ args \in ExerciseCalls
          /\ df = EmptyTable
    /\ dfIn = df

CalculateBmr ==
    /\ pc = "call" /\ op = "calculate_bmr"
    /\ ret' = Ok(calculate_bmr(args.gender, args.age, args.height, args.weight))
    /\ pc' = "done"
    /\ UNCHANGED <<df, dfIn, op, args>>

CalculateTee ==
    /\ pc = "call" /\ op = "calculate_tee"
    /\ ret' = Ok(calculate_tee(args.gender, args.age, args.height, args.weight,
                               args.activity_level))
    /\ pc' = "done"
    /\ UNCHANGED <<df, dfIn, op, args>>

ComputeTargetMacrosPerMeal ==
    /\ pc = "call" /\ op = "compute_target_macros_per_meal"
    /\ ret' = Ok(compute_target_macros_per_meal(args.tee))
    /\ pc' = "done"
    /\ UNCHANGED <<df, dfIn, op, args>>

ScoreMenu ==
    /\ pc = "call" /\ op = "score_menu"
    /\ \E out \in score_menu(df, args.targets, args.tee, args.goal) :
        /\ df' = out[1]
        /\ ret' = out[2]
    /\ pc' = "done"
    /\ UNCHANGED <<dfIn, op, args>>

EstimateSpeedBmiAge ==
    /\ pc = "call" /\ op = "estimate_speed_bmi_age"
    /\ \E speed \in estimate_speed_bmi_age(args.activity, args.bmi, args.age) :
        ret' = Ok(speed)
    /\ pc' = "done"
    /\ UNCHANGED <<df, dfIn, op, args>>

CaloriesToExerciseWithDistance ==
    /\ pc = "call" /\ op = "calories_to_exercise_with_distance"
    /\ \E result \in calories_to_exercise_with_distance(args.calories, args.bmi, args.age) :
        ret' = Ok(result)
    /\ pc' = "done"
    /\ UNCHANGED <<df, dfIn, op, args>>

Next ==
    \/ CalculateBmr
    \/ CalculateTee
    \/ ComputeTargetMacrosPerMeal
    \/ ScoreMenu
    \/ EstimateSpeedBmiAge
    \/ CaloriesToExerciseWithDistance

Spec == Init /\ [][Next]_vars

(***************************************************************************)
(* The claims.                                                             *)
(***************************************************************************)
Done(o) == pc = "done" /\ op = o

ValidGoal == args.goal \in {"muscle_gain", "fat_loss"}

Positive(x) == RGt(x, R(0))

PositiveTargets ==
    /\ Positive(args.tee)
    /\ \A k \in DOMAIN args.targets : Positive(args.targets[k])

\* Row r of a scored frame is input row q: same index label, and every field
\* of the input row with its value.
SameRow(r, q) ==
    /\ r.label = q.label
    /\ \A c \in DOMAIN q.cells : c \in DOMAIN r.cells /\ r.cells[c] = q.cells[c]

Total(rows, i) == rows[i].cells["Total Score"]

\* C1: with positive targets, positive tee and a valid goal, the sequence
\* score_menu returns is a permutation of the input rows (no row added,
\* dropped or duplicated, so the same multiset of Food / FDC ID values) and
\* each row's Total Score is >= the Total Score of the row after it.
C1_RankedPermutationDescending ==
    (Done("score_menu") /\ ValidGoal /\ PositiveTargets) =>
        /\ ret.kind = "ok"
        /\ Len(ret.val.rows) = Len(dfIn.rows)
        /\ \E p \in RowOrders(Len(dfIn.rows)) :
              \A i \in DOMAIN dfIn.rows : SameRow(ret.val.rows[i], dfIn.rows[p[i]])
        /\ \A i \in 1..(Len(ret.val.rows) - 1) :
              RGe(Total(ret.val.rows, i), Total(ret.val.rows, i + 1))

\* A call that ranked three rows into an order other than the input order,
\* with a strictly larger Total Score in front.
C1_Witness ==
    /\ Done("score_menu") /\ ValidGoal /\ PositiveTargets
    /\ ret.kind = "ok"
    /\ Len(ret.val.rows) = 3
    /\ ret.val.rows[1].label = 2
    /\ RGt(Total(ret.val.rows, 1), Total(ret.val.rows, 3))

Position(rows, label) == CHOOSE i \in DOMAIN rows : rows[i].label = label

\* C2: the ranking is stable: of two rows with equal Total Score, the one
\* that comes first in the input table comes first in the returned sequence.
C2_StableRanking ==
    (Done("score_menu") /\ ret.kind = "ok") =>
        \A i, j \in DOMAIN df.rows :
            (i < j /\ Total(df.rows, i) = Total(df.rows, j)) =>
                Position(ret.val.rows, df.rows[i].label)
                    < Position(ret.val.rows, df.rows[j].label)

\* C3: for every table, targets and tee, a goal that is neither muscle_gain
\* nor fat_loss ends in the invalid-goal error (the failed lookup of the
\* weight vector), and no ranked sequence is returned.
C3_InvalidGoalFails ==
    (Done("score_menu") /\ ~ValidGoal) => ret.kind = "KeyError"

\* The decision table of tee as the claim words it: the age band, the
\* activity bucket, and the coefficient set <<intercept, age, height, weight>>
\* (in hundredths) keyed by (gender, band, bucket).
AgeBand(age) == IF age <= 2 THEN "infant" ELSE IF age >= 19 THEN "adult" ELSE "child"

ActivityBucket(a) ==
    IF a = "inactive" THEN "inactive"
    ELSE IF a = "low active" THEN "low_active"
    ELSE IF a = "active" THEN "active"
    ELSE "other"

TeeTable ==
    [male |->
       [infant |-> [b \in {"inactive", "low_active", "active", "other"} |->
                      <<-71645, -100, 1782, 1506>>],
        child |-> [inactive   |-> <<-44751, -368, 1301, 1315>>,
                   low_active |-> <<1912, 368, 862, 2028>>,
                   active     |-> <<-38819, 368, 1266, 2046>>,
                   other      |-> <<-67175, 368, 1538, 2325>>],
        adult |-> [inactive   |-> <<75307, -1083, 650, 1410>>,
                   low_active |-> <<58147, -1083, 830, 1494>>,
                   active     |-> <<100482, -1083, 652, 1591>>,
                   other      |-> <<-51788, -1083, 1561, 1911>>]],
     female |->
       [infant |-> [b \in {"inactive", "low_active", "active", "other"} |->
                      <<-6915, 8000, 265, 5415>>],
        child |-> [inactive   |-> <<5559, -2225, 843, 1707>>,
                   low_active |-> <<-29754, -2225, 1277, 1473>>,
                   active     |-> <<-18955, -2225, 1174, 1834>>,
                   other      |-> <<-70959, -2225, 1822, 1425>>],
        adult |-> [inactive   |-> <<58490, -701, 572, 1171>>,
                   low_active |-> <<57577, -701, 660, 1214>>,
                   active     |-> <<71025, -701, 654, 1234>>,
                   other      |-> <<51183, -701, 907, 1256>>]]]

TableValue(k, age, height, weight) ==
    Dec(k[1] + k[2] * age + k[3] * height + k[4] * weight, 100)

C5_EnergyConservation ==
    (Done("compute_target_macros_per_meal") /\ Positive(args.tee)) =>
        /\ ret.kind = "ok"
        /\ RAdd(RAdd(RMul(ret.val["Protein (g)"], R(4 * 3)),
                     RMul(ret.val["Fat (g)"], R(9 * 3))),
                RMul(ret.val["Carbs (g)"], R(4 * 3))) = args.tee
        /\ \A k \in DOMAIN ret.val : RGe(ret.val[k], R(0))

\* tee = 2100 gives 70 g of protein, 70/3 g of fat and 52.5 g of carbs.
C5_Witness ==
    /\ Done("compute_target_macros_per_meal")
    /\ args.tee = R(2100)
    /\ ret.val["Protein (g)"] = R(70)
    /\ ret.val["Fat (g)"] = Norm(70, 3)
    /\ ret.val["Carbs (g)"] = Norm(105, 2)

\* The penalized score as the claim words it.
ClaimedPenalized(v, t) ==
    IF RLe(v, t) THEN RDiv(v, t)
    ELSE IF RGe(v, RMul(R(2), t)) THEN R(0)
    ELSE RSub(R(2), RDiv(v, t))

PenalizedColumns ==
    { <<"Calories", "Calories Score", args.tee>>,
      <<"Fat (g)", "Fat Score", args.targets["Fat (g)"]>>,
      <<"Carbs (g)", "Carbs Score", args.targets["Carbs (g)"]>> }

\* C6: for value >= 0 and target > 0 the Calories, Fat and Carbs scores are
\* value/target up to the target and max(0, 2 - value/target) above it:
\* 0 at value = 2*target and beyond, never negative.
C6_PenalizedScore ==
    Done("score_menu") =>
        \A k \in PenalizedColumns :
            (k[2] \in Range(df.columns) /\ Positive(k[3])) =>
                \A i \in DOMAIN df.rows :
                    LET v == df.rows[i].cells[k[1]]
                        s == df.rows[i].cells[k[2]]
                    IN  /\ s = ClaimedPenalized(v, k[3])
                        /\ RGe(s, R(0))
                        /\ RGe(v, RMul(R(2), k[3])) => s = R(0)

\* One table holding a row at twice the calorie target and a row beyond it,
\* both scored 0, and a row under the target.
C6_Witness ==
    /\ Done("score_menu") /\ ret.kind = "ok"
    /\ args.tee = R(2)
    /\ \E i, j, k \in DOMAIN df.rows :
        /\ df.rows[i].cells["Calories"] = R(4) /\ df.rows[i].cells["Calories Score"] = R(0)
        /\ df.rows[j].cells["Calories"] = R(7) /\ df.rows[j].cells["Calories Score"] = R(0)
        /\ df.rows[k].cells["Calories"] = R(1)
        /\ df.rows[k].cells["Calories Score"] = Norm(1, 2)

\* C7: for protein value >= 0 and target > 0 the Protein score is exactly 1
\* at the target and above it, and value/target below it.
C7_ProteinScore ==
    Done("score_menu") =>
        ( ("Protein Score" \in Range(df.columns)
             /\ Positive(args.targets["Protein (g)"])) =>
            \A i \in DOMAIN df.rows :
                LET v == df.rows[i].cells["Protein (g)"]
                    t == args.targets["Protein (g)"]
                    s == df.rows[i].cells["Protein Score"]
                IN  s = IF RGe(v, t) THEN R(1) ELSE RDiv(v, t) )

\* One table holding a row above the protein target, one at it and one
\* under it.
C7_Witness ==
    /\ Done("score_menu") /\ ret.kind = "ok"
    /\ args.targets["Protein (g)"] = R(2)
    /\ \E i, j, k \in DOMAIN df.rows :
        /\ df.rows[i].cells["Protein (g)"] = R(3) /\ df.rows[i].cells["Protein Score"] = R(1)
        /\ df.rows[j].cells["Protein (g)"] = R(2) /\ df.rows[j].cells["Protein Score"] = R(1)
        /\ df.rows[k].cells["Protein (g)"] = R(1)
        /\ df.rows[k].cells["Protein Score"] = Norm(1, 2)

\* The burn rates the claim gives, in kcal per minute.
ClaimedRates == [Running |-> 10, Swimming |-> 14, Cycling |-> 8, Walking |-> 4]

\* C8: the plan has exactly the entries Running, Swimming, Cycling, Walking
\* with burn rates 10, 14, 8, 4; time_min is calories/rate rounded to the
\* nearest integer, speed_kmh is a value of estimate_speed_bmi_age, and
\* distance_km is (calories/rate/60)*speed_kmh from the unrounded minutes
\* (to 2 decimals); calories = 0 gives time 0 and distance 0, and calories =
\* 600 with bmi <= 25 and age <= 40 gives Walking 5.0 km/h, 150 min, 12.5 km.
C8_ExercisePlan ==
    Done("calories_to_exercise_with_distance") =>
        /\ ret.kind = "ok"
        /\ DOMAIN ret.val = {"Running", "Swimming", "Cycling", "Walking"}
        /\ \A a \in DOMAIN ret.val :
            LET e == ret.val[a]
                rate == ClaimedRates[a]
            IN  /\ e.time_min \in Int
                /\ 2 * Abs(e.time_min * rate - args.calories) <= rate
                /\ e.speed_kmh \in estimate_speed_bmi_age(a, args.bmi, args.age)
                /\ e.distance_km \in
                       PyRound2(RMul(Norm(args.calories, rate * 60), e.speed_kmh))
                /\ args.calories = 0 => (e.time_min = 0 /\ e.distance_km = R(0))
        /\ (args.calories = 600 /\ args.bmi <= 25 /\ args.age <= 40) =>
               ret.val["Walking"] =
                   [time_min |-> 150, distance_km |-> Norm(25, 2), speed_kmh |-> R(5)]

\* The example of the claim, and in the same plan an activity whose minutes
\* are not whole (600/14), so rounded and unrounded minutes differ.
C8_Witness ==
    /\ Done("calories_to_exercise_with_distance")
    /\ args.calories = 600 /\ args.bmi = 22 /\ args.age = 25
    /\ ret.val["Walking"] =
           [time_min |-> 150, distance_km |-> Norm(25, 2), speed_kmh |-> R(5)]
    /\ ret.val["Swimming"] =
           [time_min |-> 43, distance_km |-> Dec(214, 100), speed_kmh |-> R(3)]

\* C9 as stated: after any call of score_menu, returning or failing, the
\* table the caller passed in is unchanged.
C9_TableUnchanged ==
    Done("score_menu") => df = dfIn

ColumnsOf(d) == Range(d.columns)

\* C9 as amended: after a call of score_menu on a table without score
\* fields, the caller's table has the same rows in the same order with every
\* field it had unchanged, and score fields and nothing else added to it: all
\* five when the call returns a ranking, the four nutrient scores when it
\* fails on an invalid goal, and in every case only the scores computed
\* before the call ended.
C9_TableKeepsRowsGainsScores ==
    Done("score_menu") =>
        /\ Len(df.rows) = Len(dfIn.rows)
        /\ \A i \in DOMAIN dfIn.rows : SameRow(df.rows[i], dfIn.rows[i])
        /\ ColumnsOf(dfIn) \subseteq ColumnsOf(df)
        /\ ColumnsOf(df) \subseteq ColumnsOf(dfIn) \cup Range(ScoreColumns)
        /\ ret.kind = "ok" => ColumnsOf(df) = ColumnsOf(dfIn) \cup Range(ScoreColumns)
        /\ ret.kind = "KeyError" =>
               ColumnsOf(df) = ColumnsOf(dfIn) \cup (Range(ScoreColumns) \ {"Total Score"})
        /\ ret.kind = "ok" =>
               \A i \in DOMAIN ret.val.rows :
                   ret.val.rows[i] = df.rows[Position(df.rows, ret.val.rows[i].label)]

\* A call that failed on an invalid goal and still left the four nutrient
\* scores in the caller's table, its rows where they were.
C9_Witness ==
    /\ Done("score_menu")
    /\ ret.kind = "KeyError"
    /\ Len(dfIn.rows) = 2
    /\ df # dfIn
    /\ "Carbs Score" \in ColumnsOf(df)
    /\ "Total Score" \notin ColumnsOf(df)

\* C10: every core operation returns a result for every numeric argument
\* (score_menu with a valid goal), tee = 0 and the targets derived from it
\* included, and never reaches a division by zero.
C10_TotalNoDivisionByZero ==
    (pc = "done" /\ (op = "score_menu" => ValidGoal)) => ret.kind = "ok"

====
